---- MODULE Spec2Model ----
(***************************************************************************)
(* A model of Supermodel (src/unnamed/part_000): a keypath-addressed state *)
(* container with observers, a notification queue for batched writes and   *)
(* computed values.                                                        *)
(*                                                                         *)
(* JavaScript strings are sequences of one-character strings, so that the  *)
(* keypath parser is modelled by what it does to the characters.  A value  *)
(* held in the tree or handed to a callback is a record [t, n, s]: its     *)
(* type tag, its number (numbers only) and its characters (strings only).  *)
(* The tree `_data` is a function from paths (sequences of property keys)  *)
(* to such records; a container's record carries no contents, its          *)
(* properties are the paths that extend its own.  Properties holding       *)
(* undefined are not stored: the program cannot tell them from missing     *)
(* ones (it never enumerates `_data`).                                     *)
(***************************************************************************)
EXTENDS Integers, Sequences, FiniteSets, TLC

(***************************************************************************)
(* Values                                                                  *)
(***************************************************************************)
Undefined == [t |-> "undefined", n |-> 0, s |-> <<>>]
Null == [t |-> "null", n |-> 0, s |-> <<>>]
Num(k) == [t |-> "number", n |-> k, s |-> <<>>]
Str(cs) == [t |-> "string", n |-> 0, s |-> cs]
Obj == [t |-> "object", n |-> 0, s |-> <<>>]
Arr == [t |-> "array", n |-> 0, s |-> <<>>]

\* typeof v === 'object'
TypeofObject(v) == v.t \in {"null", "object", "array"}

IsContainer(v) == v.t \in {"object", "array"}

IsPrimitive(v) == ~IsContainer(v)

\* ToBoolean(v), as used by `!obj[ key ]`
Truthy(v) ==
    CASE v.t = "number" -> v.n # 0
      [] v.t = "string" -> v.s # <<>>
      [] v.t \in {"object", "array"} -> TRUE
      [] OTHER -> FALSE

isEqualAlwaysDifferent(a, b) == FALSE

isEqual(a, b) ==
    IF a.t = "null" /\ b.t = "null" THEN TRUE
    ELSE IF TypeofObject(a) \/ TypeofObject(b) THEN FALSE
    ELSE a = b

(***************************************************************************)
(* Characters and decimal numerals                                         *)
(***************************************************************************)
Digits == <<"0", "1", "2", "3", "4", "5", "6", "7", "8", "9">>

IsDigit(c) == \E i \in 1..10 : Digits[i] = c

DigitVal(c) == (CHOOSE i \in 1..10 : Digits[i] = c) - 1

\* /^[0-9]+$/
integerPattern(cs) == cs # <<>> /\ \A i \in 1..Len(cs) : IsDigit(cs[i])

RECURSIVE StripZeros(_)
StripZeros(cs) ==
    IF Len(cs) > 1 /\ cs[1] = "0" THEN StripZeros(Tail(cs)) ELSE cs

\* String( +digits ): the property key a bracketed index turns into
NumberKey(cs) == StripZeros(cs)

RECURSIVE DecimalValue(_)
DecimalValue(cs) ==
    IF cs = <<>> THEN 0
    ELSE 10 * DecimalValue(SubSeq(cs, 1, Len(cs) - 1)) + DigitVal(cs[Len(cs)])

\* a canonical array index: "0", "1", ..., without leading zeros
IsIndex(cs) == integerPattern(cs) /\ StripZeros(cs) = cs

(***************************************************************************)
(* Keypath parser                                                          *)
(***************************************************************************)
RECURSIVE SplitOn(_, _, _)
\* String.prototype.split( '.' ): cur is the piece being read
SplitOn(cs, i, cur) ==
    IF i > Len(cs) THEN <<cur>>
    ELSE IF cs[i] = "." THEN <<cur>> \o SplitOn(cs, i + 1, <<>>)
    ELSE SplitOn(cs, i + 1, Append(cur, cs[i]))

RECURSIVE DigitRun(_, _)
\* the number of digits of cs from position i on
DigitRun(cs, i) ==
    IF i <= Len(cs) /\ IsDigit(cs[i]) THEN 1 + DigitRun(cs, i + 1) ELSE 0

\* arrayNotationPattern = /\[([0-9]+)\]/ matches at position i
MatchesAt(cs, i) ==
    /\ i <= Len(cs)
    /\ cs[i] = "["
    /\ DigitRun(cs, i + 1) > 0
    /\ i + 1 + DigitRun(cs, i + 1) <= Len(cs)
    /\ cs[i + 1 + DigitRun(cs, i + 1)] = "]"

\* arrayNotationPattern.exec( cs ): 0 for no match, else where the leftmost
\* match starts
arrayNotationPattern(cs) ==
    IF \E i \in 1..Len(cs) : MatchesAt(cs, i)
    THEN CHOOSE i \in 1..Len(cs) :
            MatchesAt(cs, i) /\ \A j \in 1..(i - 1) : ~MatchesAt(cs, j)
    ELSE 0

RECURSIVE ArrayPointers(_)
\* the while loop of parseArrayNotation: the match found anywhere in what is
\* left is pushed, and its length is cut from the front of what is left
ArrayPointers(cs) ==
    IF cs = <<>> THEN <<>>
    ELSE LET at == arrayNotationPattern(cs)
             run == DigitRun(cs, at + 1)
         IN  IF at = 0 THEN <<>>
             ELSE <<NumberKey(SubSeq(cs, at + 1, at + run))>>
                    \o ArrayPointers(SubSeq(cs, run + 3, Len(cs)))

IndexOfBracket(key) ==
    IF \E i \in 1..Len(key) : key[i] = "["
    THEN CHOOSE i \in 1..Len(key) :
            key[i] = "[" /\ \A j \in 1..(i - 1) : key[j] # "["
    ELSE 0

parseArrayNotation(key) ==
    LET index == IndexOfBracket(key)
    IN  IF index = 0 THEN <<key>>
        ELSE <<SubSeq(key, 1, index - 1)>>
               \o ArrayPointers(SubSeq(key, index, Len(key)))

RECURSIVE SecondPass(_)
SecondPass(firstPass) ==
    IF firstPass = <<>> THEN <<>>
    ELSE parseArrayNotation(Head(firstPass)) \o SecondPass(Tail(firstPass))

splitKeypath(keypath) == SecondPass(SplitOn(keypath, 1, <<>>))

RECURSIVE Join(_)
\* Array.prototype.join( '.' )
Join(keys) ==
    IF keys = <<>> THEN <<>>
    ELSE IF Len(keys) = 1 THEN keys[1]
    ELSE keys[1] \o <<".">> \o Join(Tail(keys))

standardise(keypath) == Join(splitKeypath(keypath))

\* keypath.lastIndexOf( '.' ), 0 when there is none
LastDot(cs) ==
    IF \E i \in 1..Len(cs) : cs[i] = "."
    THEN CHOOSE i \in 1..Len(cs) :
            cs[i] = "." /\ \A j \in (i + 1)..Len(cs) : cs[j] # "."
    ELSE 0

\* keypath.substr( 0, keypath.lastIndexOf( '.' ) )
Upstream(cs) == SubSeq(cs, 1, LastDot(cs) - 1)

(***************************************************************************)
(* The state tree                                                          *)
(***************************************************************************)
IsPrefix(p, q) == Len(p) <= Len(q) /\ SubSeq(q, 1, Len(p)) = p

Lookup(data, path) == IF path \in DOMAIN data THEN data[path] ELSE Undefined

\* a value passed to set: a tree of its own, rooted at the empty path
Prim(v) == (<<>> :> v)

\* node[ key ], for node the value found at path (null and undefined throw
\* and are the caller's business).  A string has its characters and its
\* length; a number has no property of its own.
GetProp(data, node, path, key) ==
    CASE IsContainer(node) -> Lookup(data, Append(path, key))
      [] node.t = "string" ->
            IF IsIndex(key) /\ DecimalValue(key) < Len(node.s)
            THEN Str(<<node.s[DecimalValue(key) + 1]>>)
            ELSE IF key = <<"l", "e", "n", "g", "t", "h">> THEN Num(Len(node.s))
            ELSE Undefined
      [] OTHER -> Undefined

RECURSIVE GetWalk(_, _, _, _)
\* the while loop of get: a throwing lookup (on null) and an undefined result
\* both return undefined
GetWalk(data, result, path, keys) ==
    IF keys = <<>> THEN result
    ELSE IF result.t = "null" THEN Undefined
    ELSE LET next == GetProp(data, result, path, Head(keys))
         IN  IF next.t = "undefined" THEN Undefined
             ELSE GetWalk(data, next, Append(path, Head(keys)), Tail(keys))

\* obj[ key ] = value, for a container at the parent of path: what was below
\* path goes, the value's own tree comes
Assign(data, path, value) ==
    LET kept == {q \in DOMAIN data : ~IsPrefix(path, q)}
        new == {path \o r : r \in {x \in DOMAIN value : value[x].t # "undefined"}}
    IN  [q \in kept \cup new |->
            IF q \in new THEN value[SubSeq(q, Len(path) + 1, Len(q))] ELSE data[q]]

RECURSIVE SetWalk(_, _, _, _, _)
\* lines 134-160 of set: walk down, creating branches, then assign.  The
\* code is strict: assigning a property of a primitive throws a TypeError.
SetWalk(data, obj, path, keys, value) ==
    LET key == Head(keys)
        child == GetProp(data, obj, path, key)
    IN  IF Len(keys) > 1
        THEN IF ~Truthy(child)
             THEN IF ~IsContainer(obj) THEN [data |-> data, err |-> "TypeError"]
                  ELSE LET branch == IF integerPattern(keys[2]) THEN Arr ELSE Obj
                       IN  SetWalk(Assign(data, Append(path, key), Prim(branch)),
                                   branch, Append(path, key), Tail(keys), value)
             ELSE SetWalk(data, child, Append(path, key), Tail(keys), value)
        ELSE IF ~IsContainer(obj) THEN [data |-> data, err |-> "TypeError"]
             ELSE [data |-> Assign(data, Append(path, key), value), err |-> "none"]

\* the value get finds at a keypath, with no computed value involved
Read(data, keypath) == GetWalk(data, Obj, <<>>, splitKeypath(keypath))

(***************************************************************************)
(* Bounds of the model                                                     *)
(***************************************************************************)
\* callbacks one public call may invoke before it counts as never returning
MaxCalls == 8

\* nested callback invocations before the stack counts as exhausted
MaxDepth == 3

\* numbers are kept in 0 .. NumRange - 1 by the derivation functions
NumRange == 4

(***************************************************************************)
(* The instance as one record, threaded through a call                     *)
(*                                                                         *)
(*   _data, _observers, _computed, _queue, queueing, computing,            *)
(*   _referToCache   the fields of the Supermodel instance                 *)
(*   groups          the observer groups (arrays carrying                  *)
(*                   __previousValue), by the number observe gave them     *)
(*   closures        the variables captured by the getter and setter of    *)
(*                   each compute call, by the number of the call          *)
(*   calls           the functions invoked since the public call began     *)
(*   err             "none", or what was thrown and not caught             *)
(*   depth           the nesting of callback invocations                   *)
(* An observer is [observedKeypath, originalKeypath, callback, group].  A  *)
(* callback is [kind, fn, g]: a function of the caller (kind "user", fn    *)
(* its name), the wrapper observeOnce makes of one (kind "once", g the     *)
(* group it cancels) or the setter of a computed value (kind "setter", g   *)
(* the compute call).                                                      *)
(***************************************************************************)
Ok(m) == m.err = "none"

Throw(m, e) == [m EXCEPT !.err = e]

UserCallback(name) == [kind |-> "user", fn |-> name, g |-> 0]

OnceCallback(name, g) == [kind |-> "once", fn |-> name, g |-> g]

SetterCallback(inst) == [kind |-> "setter", fn |-> "", g |-> inst]

\* the live array this._observers[ keypath ]: emptied, not replaced, when
\* its last observer is spliced out
Bucket(m, keypath) ==
    IF keypath \in DOMAIN m._observers THEN m._observers[keypath] ELSE <<>>

RECURSIVE SumOf(_)
SumOf(args) ==
    IF args = <<>> THEN 0
    ELSE (IF Head(args).t = "number" THEN Head(args).n ELSE 0) + SumOf(Tail(args))

\* options.fn.apply( self, args ) for the derivation functions of the model:
\*   "sum"   function () { the sum of the arguments that are numbers }
\*   "succ"  function ( x ) { return typeof x === 'number' ? x + 1 : 0 }
\* both modulo NumRange
Fn(name, args) ==
    CASE name = "sum" -> Num(SumOf(args) % NumRange)
      [] OTHER -> IF args # <<>> /\ args[1].t = "number"
                  THEN Num((args[1].n + 1) % NumRange)
                  ELSE Num(0)

\* _addToQueue
addToQueue(m, callback, value, previous) ==
    LET Spliced(queue, hit) ==
            IF hit = {} THEN queue
            ELSE LET first == CHOOSE i \in hit : \A j \in hit : i <= j
                 IN  SubSeq(queue, 1, first - 1) \o SubSeq(queue, first + 1, Len(queue))
    IN  [m EXCEPT !._queue =
            Append(Spliced(@, {i \in 1..Len(@) : @[i].c = callback}),
                   [c |-> callback, v |-> value, p |-> previous])]

\* observers.splice( index, 1 ) and the tidying up after it (lines 312-317)
Splice(m, keypath, index) ==
    IF Len(m._observers[keypath]) = 1
    THEN [m EXCEPT !._observers = [k \in DOMAIN @ \ {keypath} |-> @[k]]]
    ELSE [m EXCEPT !._observers[keypath] =
             SubSeq(@, 1, index - 1) \o SubSeq(@, index + 1, Len(@))]

\* observers.indexOf( observerToCancel ) and what follows (lines 304-319)
SpliceFound(m, keypath, hit) ==
    IF hit = {} THEN m
    ELSE Splice(m, keypath, CHOOSE i \in hit : \A j \in hit : i <= j)

\* unobserve of a single observer, its keypath standardised (lines 298-319)
unobserveAt(m, observerToCancel, keypath) ==
    IF keypath \notin DOMAIN m._observers THEN m
    ELSE SpliceFound(m, keypath,
                     {i \in 1..Len(m._observers[keypath]) :
                          m._observers[keypath][i] = observerToCancel})

\* unobserve of a single observer (lines 296-319)
unobserveOne(m, observerToCancel) ==
    unobserveAt(m, observerToCancel, standardise(observerToCancel.observedKeypath))

RECURSIVE unobserve(_, _)
\* unobserve of an observer group (lines 289-294): the group is shifted empty
unobserve(m, group) ==
    IF m.groups[group].members = <<>> THEN m
    ELSE unobserve(unobserveOne([m EXCEPT !.groups[group].members = Tail(@)],
                                Head(m.groups[group].members)), group)

\* a setter writes through set, and set notifies observers that may be
\* setters
RECURSIVE set(_, _, _, _, _)
RECURSIVE setter(_, _)

\* the walk of get (lines 189-204), after any recomputation
getResult(m, keypath) ==
    [m |-> m, v |-> IF Ok(m) THEN Read(m._data, keypath) ELSE Undefined]

\* get( keypath ): the instance afterwards (a non-cached computed value is
\* recomputed and stored first) and the value returned
get(m, keypath) ==
    IF ~Ok(m) \/ keypath = <<>> THEN [m |-> m, v |-> Undefined]
    ELSE getResult(IF /\ ~m._referToCache
                      /\ keypath \in DOMAIN m._computed
                      /\ ~m._computed[keypath].cache
                      /\ ~m._computed[keypath].override
                   THEN setter([m EXCEPT !.calls = Append(@,
                                   [c |-> SetterCallback(m._computed[keypath].setter),
                                    v |-> Undefined, p |-> Undefined, via |-> "get"])],
                               m._computed[keypath].setter)
                   ELSE m,
                   keypath)

\* args[i] = self.get( triggers[i] ), for the result got of that get
StoreArg(got, args, i) == [m |-> got.m, args |-> [args EXCEPT ![i] = got.v]]

RECURSIVE GetterArgs(_, _, _)
\* the getter's loop over the triggers, last trigger first; r is the
\* instance and the args so far
GetterArgs(r, triggers, i) ==
    IF i = 0 \/ ~Ok(r.m) THEN r
    ELSE GetterArgs(StoreArg(get(r.m, triggers[i]), r.args, i), triggers, i - 1)

\* `computed` of compute call inst is the record now in _computed: once that
\* record has been removed or replaced, writes to it are seen by nobody
Own(m, inst) ==
    /\ m.closures[inst].id \in DOMAIN m._computed
    /\ m._computed[m.closures[inst].id].setter = inst

\* computed.cache = cache (line 401), which a throwing set does not reach
setterRestore(m, inst) ==
    IF Ok(m) /\ Own(m, inst)
    THEN [m EXCEPT !._computed[m.closures[inst].id].cache = m.closures[inst].cache]
    ELSE m

\* self.set( id, getter() ) (line 400), for the result r of the getter's loop
setterWrite(r, inst) ==
    setterRestore(set(r.m, r.m.closures[inst].id,
                      Prim(Fn(r.m.closures[inst].fn, r.args)), FALSE, FALSE),
                  inst)

\* the setter of compute call inst (lines 397-402)
setter(m, inst) ==
    IF ~Ok(m) THEN m
    ELSE setterWrite(
             GetterArgs(
                 [m |-> [m EXCEPT
                            !._computed = IF Own(m, inst)
                                          THEN [@ EXCEPT ![m.closures[inst].id].cache = TRUE]
                                          ELSE @,
                            !.computing = TRUE],
                  args |-> [i \in 1..Len(m.closures[inst].triggers) |-> Undefined]],
                 m.closures[inst].triggers, Len(m.closures[inst].triggers)),
             inst)

\* the callbacks, the wrapper of observeOnce without its unobserve
BodyWithoutUnobserve(m, callback) ==
    CASE callback.kind = "setter" -> setter(m, callback.g)
      [] OTHER -> m

\* the body of a callback: a setter, the wrapper of observeOnce (the
\* caller's function, then unobserve), or a function of the caller
Body(m, callback) ==
    CASE callback.kind = "setter" -> setter(m, callback.g)
      [] callback.kind = "once" -> unobserve(m, callback.g)
      [] OTHER -> m

\* callback( value, previous ), recorded in calls
Invoke(m, callback, value, previous, via) ==
    IF ~Ok(m) THEN m
    ELSE IF Len(m.calls) >= MaxCalls THEN Throw(m, "Hang")
    ELSE IF m.depth >= MaxDepth THEN Throw(m, "RangeError")
    ELSE [Body([m EXCEPT
                   !.calls = Append(@, [c |-> callback, v |-> value,
                                        p |-> previous, via |-> via]),
                   !.depth = @ + 1],
               callback)
          EXCEPT !.depth = m.depth]

\* this._addToQueue( ... ) while queueing, callback( ... ) otherwise
Notify(m, callback, value, previous) ==
    IF m.queueing THEN addToQueue(m, callback, value, previous)
    ELSE Invoke(m, callback, value, previous, "observer")

\* lines 457-470: got is the instance and the actualValue
Tell(got, observer, previousValue, force) ==
    IF ~Ok(got.m) THEN got.m
    ELSE IF ~force /\ isEqual(got.v, previousValue)
    THEN [got.m EXCEPT !.groups[observer.group].__previousValue = got.v]
    ELSE Notify([got.m EXCEPT !.groups[observer.group].__previousValue = got.v],
                observer.callback, got.v, previousValue)

\* lines 449-470, for one observer
NotifyOne(m, keypath, value, force, observer) ==
    Tell(IF keypath # observer.originalKeypath
         THEN get(m, observer.originalKeypath)
         ELSE [m |-> m, v |-> value],
         observer, m.groups[observer.group].__previousValue, force)

RECURSIVE NotifyExact(_, _, _, _, _)
\* _notifyObservers, the loop over the observers of the keypath itself
\* (lines 447-471); i counts from 1
NotifyExact(m, keypath, value, force, i) ==
    IF ~Ok(m) \/ i > Len(Bucket(m, keypath)) THEN m
    ELSE NotifyExact(NotifyOne(m, keypath, value, force, Bucket(m, keypath)[i]),
                     keypath, value, force, i + 1)

\* lines 487-500: got is the instance and the value read upstream
TellUpstream(got, callback) ==
    IF ~Ok(got.m) THEN got.m ELSE Notify(got.m, callback, got.v, got.v)

\* lines 484-501, for one observer
NotifyUpstreamOne(m, keypath, observer) ==
    IF observer.observedKeypath = observer.originalKeypath
    THEN TellUpstream(get(m, keypath), observer.callback)
    ELSE m

RECURSIVE UpstreamLoop(_, _, _)
\* the inner loop of the upstream pass (lines 482-502): i counts down over
\* the live array; an index past its end reads undefined, whose property
\* throws
UpstreamLoop(m, keypath, i) ==
    IF ~Ok(m) \/ i = 0 THEN m
    ELSE IF i > Len(Bucket(m, keypath)) THEN Throw(m, "TypeError")
    ELSE UpstreamLoop(NotifyUpstreamOne(m, keypath, Bucket(m, keypath)[i]),
                      keypath, i - 1)

RECURSIVE NotifyUpstream(_, _)
\* the upstream pass (lines 474-503)
NotifyUpstream(m, keypath) ==
    IF ~Ok(m) \/ LastDot(keypath) = 0 THEN m
    ELSE NotifyUpstream(IF Upstream(keypath) \notin DOMAIN m._observers THEN m
                        ELSE UpstreamLoop(m, Upstream(keypath),
                                          Len(m._observers[Upstream(keypath)])),
                        Upstream(keypath))

notifyObservers(m, keypath, value, force) ==
    NotifyUpstream(NotifyExact(m, keypath, value, force, 1), keypath)

\* lines 98-120 of set: a write to a computed value is manual or the
\* setter's own, by the instance-wide flag `computing`
SetComputed(m, keypath) ==
    IF keypath \notin DOMAIN m._computed THEN m
    ELSE IF ~m.computing
    THEN IF m._computed[keypath].readonly THEN Throw(m, "readonly")
         ELSE [m EXCEPT !._computed[keypath].override = TRUE]
    ELSE [m EXCEPT !._computed[keypath].override = FALSE, !.computing = FALSE]

\* lines 162-168 of set: w is the tree walked and written, or what the walk
\* threw
SetNotify(m, previous, keypath, value, silent, force, w) ==
    IF w.err # "none" THEN Throw(m, w.err)
    ELSE IF ~silent /\ (force \/ ~isEqual(previous, value[<<>>]))
    THEN notifyObservers([m EXCEPT !._data = w.data], keypath, value[<<>>], force)
    ELSE [m EXCEPT !._data = w.data]

\* lines 122-168 of set, the keypath split into keys
SetKeys(m, keypath, value, silent, force, keys) ==
    SetNotify(m, IF keypath = <<>> THEN Undefined ELSE Read(m._data, keypath),
              Join(keys), value, silent, force,
              SetWalk(m._data, Obj, <<>>, keys, value))

\* lines 122-168 of set, past the check of a computed value
SetStored(m, keypath, value, silent, force) ==
    IF ~Ok(m) THEN m
    ELSE SetKeys(m, keypath, value, silent, force, splitKeypath(keypath))

\* set( keypath, value, silent, force ) for one keypath (lines 97-168); the
\* value is a tree, what observers are told of it is its root
set(m, keypath, value, silent, force) ==
    IF ~Ok(m) THEN m
    ELSE SetStored(SetComputed(m, keypath), keypath, value, silent, force)

RECURSIVE dispatchQueue(_)
\* dispatchQueue: the queue is drained while the callbacks it calls may add
\* to it
dispatchQueue(m) ==
    IF ~Ok(m) \/ m._queue = <<>> THEN m
    ELSE dispatchQueue(Invoke([m EXCEPT !._queue = Tail(@)],
                              Head(m._queue).c, Head(m._queue).v, Head(m._queue).p, "queue"))

RECURSIVE SetEach(_, _, _)
\* the for-in loop of the mapping form: entries is the mapping, as the
\* sequence of its <<keypath, value>> pairs in enumeration order
SetEach(m, entries, silent) ==
    IF entries = <<>> \/ ~Ok(m) THEN m
    ELSE SetEach(set(m, Head(entries)[1], Head(entries)[2], silent, FALSE),
                 Tail(entries), silent)

\* this.queueing = false (line 92), which a throwing entry or callback does
\* not reach
StopQueueing(m) == IF Ok(m) THEN [m EXCEPT !.queueing = FALSE] ELSE m

\* set( mapping, silent ) (lines 76-95)
setMapping(m, entries, silent) ==
    StopQueueing(dispatchQueue(SetEach([m EXCEPT !.queueing = TRUE], entries, silent)))

RECURSIVE Prefixes(_)
\* the keypaths observe registers under: the keypath, then each upstream one
Prefixes(keypath) ==
    IF LastDot(keypath) # 0 THEN <<keypath>> \o Prefixes(Upstream(keypath))
    ELSE <<keypath>>

\* the observer records of one observe call, one for each keypath it
\* registers under (lines 241-246)
Records(originalKeypath, prefixes, callback, group) ==
    [i \in 1..Len(prefixes) |->
        [observedKeypath |-> prefixes[i], originalKeypath |-> originalKeypath,
         callback |-> callback, group |-> group]]

RECURSIVE Register(_, _)
\* the inner function `observe` of observe (lines 238-252), once per record
Register(m, records) ==
    IF records = <<>> THEN m
    ELSE Register([m EXCEPT
             !._observers = (Head(records).observedKeypath :>
                                Append(Bucket(m, Head(records).observedKeypath),
                                       Head(records))) @@ @,
             !.groups[Head(records).group].members = Append(@, Head(records))],
             Tail(records))

\* callback( this.get( originalKeypath ) ) (line 265), got the result of
\* that get
Initialize(got, callback) == Invoke(got.m, callback, got.v, Undefined, "init")

\* observerGroup.__previousValue = self.get( originalKeypath ) (line 268)
Remember(got, group) ==
    IF Ok(got.m) THEN [got.m EXCEPT !.groups[group].__previousValue = got.v]
    ELSE got.m

\* lines 264-268 of observe, the records registered
Registered(m, originalKeypath, callback, initialize, group) ==
    Remember(get(IF initialize
                 THEN Initialize(get(m, originalKeypath), callback)
                 ELSE m,
                 originalKeypath),
             group)

\* lines 238-270 of observe, the keypath standardised
observeAt(m, originalKeypath, callback, initialize, kind) ==
    Registered(Register([m EXCEPT !.groups = Append(@,
                            [__previousValue |-> Undefined, members |-> <<>>,
                             kind |-> kind])],
                        Records(originalKeypath, Prefixes(originalKeypath),
                                callback, Len(m.groups) + 1)),
               originalKeypath, callback, initialize, Len(m.groups) + 1)

\* observe( keypath, callback, initialize ) (lines 223-271); the group it
\* returns is the next number.  kind says who holds the group: the caller
\* ("observe"), the wrapper of observeOnce ("once") or a computed value
\* ("compute").
observe(m, keypath, callback, initialize, kind) ==
    IF ~Ok(m) \/ keypath = <<>> THEN m
    ELSE observeAt(m, standardise(keypath), callback, initialize, kind)

\* observeOnce( keypath, callback ) (lines 273-282)
observeOnce(m, keypath, name) ==
    observe(m, keypath, OnceCallback(name, Len(m.groups) + 1), FALSE, "once")

RECURSIVE PopGroups(_, _)
\* the while loop of removeComputedValue: the groups are popped, last first
PopGroups(m, id) ==
    IF m._computed[id].observerGroups = <<>> THEN m
    ELSE PopGroups(unobserve([m EXCEPT !._computed[id].observerGroups =
                                  SubSeq(@, 1, Len(@) - 1)],
                             m._computed[id].observerGroups[
                                 Len(m._computed[id].observerGroups)]), id)

\* removeComputedValue( id ) (lines 432-440)
removeComputedValue(m, id) ==
    IF ~Ok(m) THEN m
    ELSE IF id \notin DOMAIN m._computed THEN Throw(m, "TypeError")
    ELSE [PopGroups(m, id) EXCEPT !._computed = [k \in DOMAIN @ \ {id} |-> @[k]]]

\* observerGroups[ observerGroups.length ] = the group observe returned
\* (line 426): observe made one if there are more groups than before
PushGroup(m, id, before) ==
    IF Ok(m) /\ Len(m.groups) > before
    THEN [m EXCEPT !._computed[id].observerGroups = Append(@, Len(m.groups))]
    ELSE m

RECURSIVE ObserveTriggers(_, _, _, _)
\* the while loop of compute that watches the triggers, last trigger first
ObserveTriggers(m, id, inst, i) ==
    IF i = 0 \/ ~Ok(m) THEN m
    ELSE ObserveTriggers(
             PushGroup(observe(m, m.closures[inst].triggers[i], SetterCallback(inst),
                               FALSE, "compute"),
                       id, Len(m.groups)),
             id, inst, i - 1)

\* lines 414-429 of compute, the value seeded
Seeded(m, id, inst) ==
    IF ~Ok(m) THEN m
    ELSE IF m.closures[inst].triggers = <<>> /\ m.closures[inst].cache
    THEN Throw(m, "uncachable")
    ELSE ObserveTriggers(m, id, inst, Len(m.closures[inst].triggers))

\* compute without the test of lines 360-363
ReplacedUnchecked(m, id, options, cache, inst) ==
    IF ~Ok(m) THEN m
    ELSE Seeded(setter(
                    [m EXCEPT
                        !.closures = Append(@, [id |-> id, triggers |-> options.triggers,
                                                fn |-> options.fn, cache |-> cache]),
                        !._computed = (id :> [setter |-> inst, cache |-> cache,
                                              readonly |-> options.readonly # "false",
                                              override |-> FALSE,
                                              observerGroups |-> <<>>]) @@ @,
                        !.calls = Append(@, [c |-> SetterCallback(inst), v |-> Undefined,
                                             p |-> Undefined, via |-> "compute"])],
                    inst),
                id, inst)

\* lines 348-429 of compute, a computed value already under id removed
Replaced(m, id, options, cache, inst) ==
    IF ~Ok(m) THEN m
    ELSE IF \E i \in 1..Len(options.triggers) : options.triggers[i] = id
    THEN Throw(m, "self-trigger")
    ELSE Seeded(setter(
                    [m EXCEPT
                        !.closures = Append(@, [id |-> id, triggers |-> options.triggers,
                                                fn |-> options.fn, cache |-> cache]),
                        !._computed = (id :> [setter |-> inst, cache |-> cache,
                                              readonly |-> options.readonly # "false",
                                              override |-> FALSE,
                                              observerGroups |-> <<>>]) @@ @,
                        !.calls = Append(@, [c |-> SetterCallback(inst), v |-> Undefined,
                                             p |-> Undefined, via |-> "compute"])],
                    inst),
                id, inst)

\* compute( id, options ) for one id (lines 343-430).  options is
\* [fn, triggers, cache, readonly], cache and readonly each "true", "false"
\* or "undefined".
compute(m, id, options) ==
    Replaced(IF id \in DOMAIN m._computed THEN removeComputedValue(m, id) ELSE m,
             id, options,
             IF options.triggers # <<>> THEN options.cache # "false" ELSE FALSE,
             Len(m.closures) + 1)

\* isNumeric( v ): a number, or a string that reads as one
isNumeric(v) == v.t = "number" \/ (v.t = "string" /\ integerPattern(v.s))

\* +v, for a numeric v
ToNumber(v) == IF v.t = "number" THEN v.n ELSE DecimalValue(v.s)

\* lines 8-10 of add: got is the instance and the value get returned
addSum(got, keypath, d) ==
    IF ~Ok(got.m) THEN got.m
    ELSE IF isNumeric(got.v) /\ isNumeric(d)
    THEN set(got.m, keypath, Prim(Num(ToNumber(got.v) + ToNumber(d))), FALSE, FALSE)
    ELSE got.m

\* add( keypath, d ) (lines 1-11)
add(m, keypath, d) ==
    addSum(get(m, keypath), keypath, IF d = Undefined THEN Num(1) ELSE d)

(***************************************************************************)
(* State                                                                   *)
(***************************************************************************)
VARIABLES
    _data,          \* the state tree
    _observers,     \* keypath -> the observers registered under it
    _computed,      \* id -> the computed value registered under it
    _queue,         \* the notifications a mapping-form set has queued
    queueing,       \* a mapping-form set is queueing notifications
    computing,      \* a setter has announced its write
    _referToCache,  \* get is to leave computed values alone
    groups,         \* the observer groups made so far
    closures,       \* the compute calls made so far
    last            \* the last public call: its arguments, the instance
                    \* before it (pre), what it invoked and what it threw

vars == <<_data, _observers, _computed, _queue, queueing, computing,
          _referToCache, groups, closures, last>>

\* the instance, at the start of a public call
Here ==
    [_data |-> _data, _observers |-> _observers, _computed |-> _computed,
     _queue |-> _queue, queueing |-> queueing, computing |-> computing,
     _referToCache |-> _referToCache, groups |-> groups, closures |-> closures,
     calls |-> <<>>, err |-> "none", depth |-> 0]

NoOptions == [fn |-> "", triggers |-> <<>>, cache |-> "undefined", readonly |-> "undefined"]

NoCall ==
    [op |-> "new", keypath |-> <<>>, value |-> Prim(Undefined), entries |-> <<>>,
     silent |-> FALSE, force |-> FALSE, initialize |-> FALSE, name |-> "",
     group |-> 0, options |-> NoOptions, result |-> Undefined]

\* the instance after a public call that left it as m, thrown or not
Becomes(m, call) ==
    /\ _data' = m._data
    /\ _observers' = m._observers
    /\ _computed' = m._computed
    /\ _queue' = m._queue
    /\ queueing' = m.queueing
    /\ computing' = m.computing
    /\ _referToCache' = m._referToCache
    /\ groups' = m.groups
    /\ closures' = m.closures
    /\ last' = [call |-> call, pre |-> Here, calls |-> m.calls, err |-> m.err]

\* new Supermodel( data ) (lines 37-42); the flags start undefined, falsy
Constructed(data) ==
    /\ _data = data
    /\ _observers = <<>>
    /\ _computed = <<>>
    /\ _queue = <<>>
    /\ queueing = FALSE
    /\ computing = FALSE
    /\ _referToCache = FALSE
    /\ groups = <<>>
    /\ closures = <<>>
    /\ last = [call |-> NoCall,
               pre |-> [_data |-> data, _observers |-> <<>>, _computed |-> <<>>,
                        _queue |-> <<>>, queueing |-> FALSE, computing |-> FALSE,
                        _referToCache |-> FALSE, groups |-> <<>>, closures |-> <<>>,
                        calls |-> <<>>, err |-> "none", depth |-> 0],
               calls |-> <<>>, err |-> "none"]

(***************************************************************************)
(* The public calls, over the arguments a specification allows             *)
(***************************************************************************)
\* set( keypath, value, silent, force ); a write is <<keypath, value>>
Set(writes, silents, forces) ==
    \E write \in writes, silent \in silents, force \in forces :
        Becomes(set(Here, write[1], write[2], silent, force),
                [NoCall EXCEPT !.op = "set", !.keypath = write[1], !.value = write[2],
                               !.silent = silent, !.force = force])

SetMapping(mappings, silents) ==
    \E entries \in mappings, silent \in silents :
        Becomes(setMapping(Here, entries, silent),
                [NoCall EXCEPT !.op = "setMapping", !.entries = entries, !.silent = silent])

Get(keypaths) ==
    \E keypath \in keypaths :
        LET g == get(Here, keypath)
        IN  Becomes(g.m, [NoCall EXCEPT !.op = "get", !.keypath = keypath, !.result = g.v])

\* observe( keypath, callback, initialize ); a registration is
\* <<keypath, the name of the caller's function>>
Observe(registrations, initializes, maxGroups) ==
    /\ Len(groups) < maxGroups
    /\ \E r \in registrations, initialize \in initializes :
        Becomes(observe(Here, r[1], UserCallback(r[2]), initialize, "observe"),
                [NoCall EXCEPT !.op = "observe", !.keypath = r[1], !.name = r[2],
                               !.initialize = initialize, !.group = Len(groups) + 1])

ObserveOnce(registrations, maxGroups) ==
    /\ Len(groups) < maxGroups
    /\ \E r \in registrations :
        Becomes(observeOnce(Here, r[1], r[2]),
                [NoCall EXCEPT !.op = "observeOnce", !.keypath = r[1], !.name = r[2],
                               !.group = Len(groups) + 1])

\* unobserve( group ), for a group observe returned to the caller
Unobserve ==
    \E group \in {g \in 1..Len(groups) : groups[g].kind = "observe"} :
        Becomes(unobserve(Here, group), [NoCall EXCEPT !.op = "unobserve", !.group = group])

\* unobserve( record ), for one record of a group observe returned to the
\* caller, whether or not the record is still in the registry
UnobserveRecord(registrations) ==
    \E group \in {g \in 1..Len(groups) : groups[g].kind = "observe"},
       r \in registrations, n \in 1..2 :
        /\ n <= Len(Prefixes(standardise(r[1])))
        /\ Becomes(unobserveOne(Here, Records(standardise(r[1]),
                                              Prefixes(standardise(r[1])),
                                              UserCallback(r[2]), group)[n]),
                   [NoCall EXCEPT !.op = "unobserveRecord", !.keypath = r[1],
                                  !.name = r[2], !.group = group])

\* compute( id, options ); a computation is <<id, options>>
Compute(computations, maxComputes, maxGroups) ==
    /\ Len(closures) < maxComputes
    /\ \E c \in computations :
        /\ Len(groups) + Len(c[2].triggers) <= maxGroups
        /\ Becomes(compute(Here, c[1], c[2]),
                   [NoCall EXCEPT !.op = "compute", !.keypath = c[1], !.options = c[2]])

RemoveComputedValue ==
    \E id \in DOMAIN _computed :
        Becomes(removeComputedValue(Here, id),
                [NoCall EXCEPT !.op = "removeComputedValue", !.keypath = id])

\* add( keypath, d ), while the number at the keypath is at most maxNumber
Add(keypaths, deltas, maxNumber) ==
    \E keypath \in keypaths, d \in deltas :
        /\ isNumeric(Read(_data, keypath)) => ToNumber(Read(_data, keypath)) <= maxNumber
        /\ Becomes(add(Here, keypath, d),
                   [NoCall EXCEPT !.op = "add", !.keypath = keypath, !.value = Prim(d)])

(***************************************************************************)
(* Spec: observers of foo and foo.bar, single and mapping-form writes      *)
(***************************************************************************)
foo == <<"f", "o", "o">>
foo_bar == <<"f", "o", "o", ".", "b", "a", "r">>
bar == <<"b", "a", "r">>
baz == <<"b", "a", "z">>
boo == <<"b", "o", "o">>

\* { bar: value }
BarOf(value) == (<<>> :> Obj) @@ (<<bar>> :> value)

\* observers the model may hold at once
MaxGroups == 2

Writes ==
    {<<foo, Prim(Str(bar))>>, <<foo, BarOf(Str(baz))>>, <<foo_bar, Prim(Str(boo))>>}

Mappings ==
    {<< <<foo_bar, Prim(Str(boo))>>, <<foo, BarOf(Str(baz))>> >>,
     << <<foo, Prim(Str(bar))>>, <<foo_bar, Prim(Str(baz))>> >>}

Registrations == {<<foo, "f">>, <<foo_bar, "g">>}

Init == Constructed(Prim(Obj))

DoSet == Set(Writes, BOOLEAN, BOOLEAN)

DoSetMapping == SetMapping(Mappings, BOOLEAN)

DoObserve == Observe(Registrations, {FALSE}, MaxGroups)

Next == DoSet \/ DoSetMapping \/ DoObserve

Spec == Init /\ [][Next]_vars

(***************************************************************************)
(* SpecComputed: computed values a (of x) and b (of a), single and         *)
(* mapping-form writes, removal                                            *)
(***************************************************************************)
keyX == <<"x">>
keyXZ == <<"x", ".", "z">>
idA == <<"a">>
idB == <<"b">>

\* { x: value }
XOf(value) == (<<>> :> Obj) @@ (<<keyX>> :> value)

\* compute calls the model may make
MaxComputes == 2

\* observer groups the model may make under SpecComputed
MaxGroupsComputed == 2

Options(fn, triggers, cache, readonly) ==
    [fn |-> fn, triggers |-> triggers, cache |-> cache, readonly |-> readonly]

Computations ==
    {<<idA, Options("succ", <<keyX>>, "undefined", "undefined")>>,
     <<idA, Options("succ", <<keyX>>, "false", "undefined")>>,
     <<idB, Options("sum", <<idA>>, "undefined", "undefined")>>,
     <<idB, Options("sum", <<idA>>, "undefined", "false")>>}

WritesComputed ==
    {<<keyX, Prim(Num(0))>>, <<keyX, Prim(Num(1))>>, <<keyXZ, Prim(Num(1))>>,
     <<idB, Prim(Num(3))>>}

MappingsComputed ==
    {<< <<keyX, Prim(Num(1))>>, <<keyXZ, Prim(Num(1))>> >>,
     << <<keyX, Prim(Num(0))>> >>}

InitComputed == Constructed(XOf(Num(0)))

DoCompute == Compute(Computations, MaxComputes, MaxGroupsComputed)

DoSetComputed == Set(WritesComputed, {FALSE}, {FALSE})

DoSetMappingComputed == SetMapping(MappingsComputed, {FALSE})

DoRemoveComputedValue == RemoveComputedValue

NextComputed ==
    \/ DoCompute
    \/ DoSetComputed
    \/ DoSetMappingComputed
    \/ DoRemoveComputedValue

SpecComputed == InitComputed /\ [][NextComputed]_vars

(***************************************************************************)
(* SpecBatch: one function h observing both x and the computed value a of  *)
(* x, single and mapping-form writes of x                                  *)
(***************************************************************************)
h == UserCallback("h")

\* observer groups the model may make under SpecBatch
MaxGroupsBatch == 3

ComputationsBatch == {<<idA, Options("succ", <<keyX>>, "undefined", "undefined")>>}

WritesBatch == {<<keyX, Prim(Num(0))>>, <<keyX, Prim(Num(1))>>}

MappingsBatch ==
    {<< <<keyX, Prim(Num(0))>> >>,
     << <<keyX, Prim(Num(1))>>, <<keyX, Prim(Num(2))>> >>}

RegistrationsBatch == {<<keyX, "h">>, <<idA, "h">>}

InitBatch == Constructed(XOf(Num(1)))

DoComputeBatch == Compute(ComputationsBatch, 1, MaxGroupsBatch)

DoSetBatch == Set(WritesBatch, BOOLEAN, {FALSE})

DoSetMappingBatch == SetMapping(MappingsBatch, {FALSE})

DoObserveBatch == Observe(RegistrationsBatch, {FALSE}, MaxGroupsBatch)

NextBatch ==
    \/ DoComputeBatch
    \/ DoSetBatch
    \/ DoSetMappingBatch
    \/ DoObserveBatch

SpecBatch == InitBatch /\ [][NextBatch]_vars

(***************************************************************************)
(* What the last public call did                                           *)
(***************************************************************************)
f == UserCallback("f")
g == UserCallback("g")

\* set( keypath, value ... ) for one keypath was the last call
SingleSet == last.call.op = "set"

\* set( mapping, silent ) was the last call
MappingSet == last.call.op = "setMapping"

Returned == last.err = "none"

\* the root of the value the last set was given
Value == last.call.value[<<>>]

\* the values at keypath k before and after the last call
Before(k) == Read(last.pre._data, k)

After(k) == Read(_data, k)

\* the invocations of callback cb during the last call
Invoked(cb) == {i \in 1..Len(last.calls) : last.calls[i].c = cb}

\* the observers of instance m registered under k for k itself, calling cb
ExactObservers(m, k, cb) ==
    {i \in 1..Len(Bucket(m, k)) :
        /\ Bucket(m, k)[i].originalKeypath = k
        /\ Bucket(m, k)[i].callback = cb}

\* every such observer's group remembers the value now at k
InSync(m, k, cb) ==
    \A i \in ExactObservers(m, k, cb) :
        m.groups[Bucket(m, k)[i].group].__previousValue = Read(m._data, k)

\* C1: a non-silent, non-forced set( k, v ) of the primitive that k already
\* holds invokes no exact observer of k (so the second of two consecutive
\* equal writes invokes nothing), and one that changes the value invokes
\* each exact observer of k that has seen the old value exactly once.
C1_ExactObserverFiresOnChangeOnly ==
    \A cb \in {f, g} :
        (/\ SingleSet /\ ~last.call.silent /\ ~last.call.force
         /\ IsPrimitive(Value)
         /\ ExactObservers(last.pre, last.call.keypath, cb) # {})
        => /\ Before(last.call.keypath) = Value => Invoked(cb) = {}
           /\ (/\ Before(last.call.keypath) # Value
               /\ Returned /\ ~last.pre.queueing
               /\ InSync(last.pre, last.call.keypath, cb))
              => Cardinality(Invoked(cb))
                   = Cardinality(ExactObservers(last.pre, last.call.keypath, cb))

\* the second of two equal writes to an observed keypath has returned
C1_Witness ==
    /\ SingleSet /\ ~last.call.silent /\ ~last.call.force
    /\ last.call.keypath = foo /\ Value = Str(bar)
    /\ ExactObservers(last.pre, foo, f) # {}
    /\ InSync(last.pre, foo, f)
    /\ Before(foo) = Str(bar)
    /\ last.calls = <<>>

\* the keypaths strictly upstream of k
StrictAncestors(k) ==
    {Prefixes(k)[i] : i \in 2..Len(Prefixes(k))}

\* the values the groups of the exact observers of k calling cb remembered
Remembered(m, k, cb) ==
    {m.groups[Bucket(m, k)[i].group].__previousValue : i \in ExactObservers(m, k, cb)}

\* C2: a non-silent, non-forced set on an ancestor of foo.bar invokes the
\* observer of foo.bar with the new value of foo.bar when that value differs
\* from the one before the write, and does not invoke it when foo.bar holds
\* the same primitive before and after.
C2_DownstreamChangeFiltering ==
    (/\ SingleSet /\ ~last.call.silent /\ ~last.call.force /\ Returned
     /\ ~last.pre.queueing
     /\ last.call.keypath \in StrictAncestors(foo_bar)
     /\ ExactObservers(last.pre, foo_bar, g) # {})
    => /\ ~isEqual(Before(foo_bar), After(foo_bar))
          => \E i \in Invoked(g) : last.calls[i].v = After(foo_bar)
       /\ (IsPrimitive(After(foo_bar)) /\ Before(foo_bar) = After(foo_bar))
          => Invoked(g) = {}

\* C3: a non-silent set( p, v ) that returns invokes the observer of a strict
\* ancestor of p with the ancestor's container as both arguments when v
\* differs from what p held, and does not invoke it when, unforced, it
\* writes the primitive p already held.
C3_UpstreamPropagation ==
    \A a \in StrictAncestors(last.call.keypath) :
        (/\ SingleSet /\ ~last.call.silent /\ Returned
         /\ ExactObservers(last.pre, a, f) # {})
        => /\ ~isEqual(Before(last.call.keypath), Value)
              => \E i \in Invoked(f) :
                    last.calls[i].v = After(a) /\ last.calls[i].p = After(a)
           /\ (/\ ~last.call.force /\ IsPrimitive(Value)
               /\ Before(last.call.keypath) = Value)
              => Invoked(f) = {}

\* C4: a silent set, of one keypath or of a mapping, invokes no callback and
\* puts none on the queue.
C4_SilentSetNotifiesNobody ==
    ((SingleSet \/ MappingSet) /\ last.call.silent)
    => /\ last.calls = <<>>
       /\ \A i \in 1..Len(_queue) :
             \E j \in 1..Len(last.pre._queue) : _queue[i] = last.pre._queue[j]

\* C5: an exact observer of k invoked because of set( k, v ) is passed v and
\* the value k held immediately before that call.
C5_PreviousValueIsValueBeforeSet ==
    \A cb \in {f, g} :
        (/\ SingleSet /\ ~last.pre.queueing
         /\ ExactObservers(last.pre, last.call.keypath, cb) # {})
        => \A i \in Invoked(cb) :
              /\ last.calls[i].v = Value
              /\ last.calls[i].p = Before(last.call.keypath)

\* C7: a callback the flush of a mapping-form set invokes is passed the value
\* its keypath holds after the whole batch and the value its observer group
\* had recorded before the batch started.
C7_FlushPassesFinalAndRecordedValue ==
    \A k \in {foo, foo_bar} : \A cb \in {f, g} :
        (/\ MappingSet /\ Returned
         /\ ~last.pre.queueing /\ last.pre._queue = <<>>
         /\ ExactObservers(last.pre, k, cb) # {})
        => \A i \in Invoked(cb) :
              last.calls[i].via = "queue"
              => /\ last.calls[i].v = After(k)
                 /\ last.calls[i].p \in Remembered(last.pre, k, cb)

\* C6: during one mapping-form set, from entry to return, no callback
\* function is invoked more than once.
C6_BatchInvokesEachCallbackOnce ==
    (MappingSet /\ ~last.pre.queueing /\ last.pre._queue = <<>>)
    => \A i, j \in 1..Len(last.calls) :
          last.calls[i].c = last.calls[j].c => i = j

\* fn applied to the current values of the triggers of computed value id
Derived(id) ==
    Fn(closures[_computed[id].setter].fn,
       [i \in 1..Len(closures[_computed[id].setter].triggers) |->
           get(Here, closures[_computed[id].setter].triggers[i]).v])

\* compute( id, ... ) returned: the computed value watches its triggers
Computed(id) ==
    /\ id \in DOMAIN _computed
    /\ Len(_computed[id].observerGroups)
         = Len(closures[_computed[id].setter].triggers)

\* C8: between calls, get( id ) of a cached, readonly computed value is fn
\* of the current values of its triggers.
C8_ComputedCorrectness ==
    \A id \in {idA, idB} :
        (/\ Computed(id) /\ _computed[id].cache /\ _computed[id].readonly
         /\ ~queueing /\ _queue = <<>>)
        => get(Here, id).v = Derived(id)

\* C9: a manual set of a readonly computed value fails with the readonly
\* error, invokes no callback and changes neither the tree, the computed
\* values nor the observers.
C9_ReadonlyEnforcement ==
    (/\ SingleSet
     /\ last.call.keypath \in DOMAIN last.pre._computed
     /\ last.pre._computed[last.call.keypath].readonly)
    => /\ last.err = "readonly"
       /\ last.calls = <<>>
       /\ _data = last.pre._data
       /\ _computed = last.pre._computed
       /\ _observers = last.pre._observers

\* the last call wrote id by hand
ManualSet(id) ==
    \/ SingleSet /\ last.call.keypath = id
    \/ MappingSet /\ \E i \in 1..Len(last.call.entries) : last.call.entries[i][1] = id

\* the last call invoked the setter of the computed value now under id
Recomputed(id) ==
    \E i \in 1..Len(last.calls) :
        last.calls[i].c = SetterCallback(_computed[id].setter)

\* C10: the override flag of a computed value becomes true only by a manual
\* set of it; after a manual set of a non-readonly computed value get
\* returns the value set; a call that recomputes the value leaves the flag
\* false.
C10_OverrideSemantics ==
    \A id \in DOMAIN _computed :
        /\ (/\ _computed[id].override
            /\ ~(id \in DOMAIN last.pre._computed /\ last.pre._computed[id].override))
           => ManualSet(id)
        /\ (/\ SingleSet /\ last.call.keypath = id /\ Returned
            /\ id \in DOMAIN last.pre._computed)
           => get(Here, id).v = Value
        /\ (Recomputed(id) /\ Returned /\ ~ManualSet(id))
           => ~_computed[id].override

(***************************************************************************)
(* SpecConfig: compute( a, options ) over the configurations of triggers   *)
(* and cache, writes of x, removal                                         *)
(***************************************************************************)
\* compute calls the model may make under SpecConfig
MaxComputesConfig == 3

\* observer groups the model may make under SpecConfig
MaxGroupsConfig == 3

ComputationsConfig ==
    {<<idA, Options("succ", <<keyX>>, "undefined", "undefined")>>,
     <<idA, Options("succ", <<keyX>>, "false", "undefined")>>,
     <<idA, Options("succ", <<idA>>, "undefined", "undefined")>>,
     <<idA, Options("succ", <<keyX, idA>>, "true", "undefined")>>,
     <<idA, Options("sum", <<>>, "true", "undefined")>>,
     <<idA, Options("sum", <<>>, "undefined", "undefined")>>}

InitConfig == Constructed(XOf(Num(0)))

DoComputeConfig == Compute(ComputationsConfig, MaxComputesConfig, MaxGroupsConfig)

DoSetConfig == Set(WritesBatch, {FALSE}, {FALSE})

DoRemoveConfig == RemoveComputedValue

NextConfig ==
    \/ DoComputeConfig
    \/ DoSetConfig
    \/ DoRemoveConfig

SpecConfig == InitConfig /\ [][NextConfig]_vars

\* compute( id, options ) was the last call
ComputeCall == last.call.op = "compute"

\* indexOf( id, triggers ) !== -1 for the last call
SelfTriggered ==
    /\ ComputeCall
    /\ \E i \in 1..Len(last.call.options.triggers) :
          last.call.options.triggers[i] = last.call.keypath

\* every observer record now in the registry was in it before the last call
NoRecordAdded ==
    \A k \in DOMAIN _observers : \A i \in 1..Len(_observers[k]) :
        \E j \in 1..Len(Bucket(last.pre, k)) : Bucket(last.pre, k)[j] = _observers[k][i]

\* C11: compute( id, options ) with id among the triggers throws the
\* self-trigger error; afterwards nothing is computed under id, no observer
\* record has been added, and neither a setter nor fn has been invoked.
C11_SelfTriggerRejected ==
    SelfTriggered
    => /\ last.err = "self-trigger"
       /\ last.call.keypath \notin DOMAIN _computed
       /\ NoRecordAdded
       /\ last.calls = <<>>
       /\ closures = last.pre.closures
       /\ _data = last.pre._data

\* a self-triggered compute was rejected where a computed value of x, with
\* its observer of x, was registered under the same id
C11_Witness ==
    /\ SelfTriggered
    /\ last.err = "self-trigger"
    /\ last.call.keypath \in DOMAIN last.pre._computed
    /\ last.pre._observers # <<>>

\* C12: compute with cache: true and no triggers throws the configuration
\* error; with cache unspecified the computed value is cached exactly when
\* it has triggers.
C12_CacheConfiguration ==
    ComputeCall
    => /\ (last.call.options.triggers = <<>> /\ last.call.options.cache = "true")
          => last.err = "uncachable"
       /\ (last.call.options.cache = "undefined" /\ Returned)
          => _computed[last.call.keypath].cache = (last.call.options.triggers # <<>>)

\* the observer records in the registry of instance m that call setter inst
SetterRecords(m, inst) ==
    {<<k, i>> \in UNION {{k} \X (1..Len(m._observers[k])) : k \in DOMAIN m._observers} :
        m._observers[k][i].callback = SetterCallback(inst)}

\* the setter of compute call inst belongs to a computed value that instance
\* m has registered
Registered_(m, inst) ==
    \E id \in DOMAIN m._computed : m._computed[id].setter = inst

\* C13: once a computed value has been removed, directly or by a compute
\* that replaces it, none of its observer records is in the registry, a
\* direct removal leaves id not computed and get( id ) as it was, and no
\* later call invokes the setter of a removed computed value.
C13_RemovedComputedValueIsGone ==
    /\ (last.call.op = "removeComputedValue" /\ Returned)
       => /\ last.call.keypath \notin DOMAIN _computed
          /\ SetterRecords(Here, last.pre._computed[last.call.keypath].setter) = {}
          /\ get(Here, last.call.keypath).v = Read(last.pre._data, last.call.keypath)
    /\ (ComputeCall /\ last.call.keypath \in DOMAIN last.pre._computed)
       => SetterRecords(Here, last.pre._computed[last.call.keypath].setter) = {}
    /\ \A i \in 1..Len(last.calls) :
          last.calls[i].c.kind = "setter"
          => \/ Registered_(last.pre, last.calls[i].c.g)
             \/ last.calls[i].c.g > Len(last.pre.closures)

(***************************************************************************)
(* SpecObservers: observers and one-shot observers of foo and foo.bar,     *)
(* cancelled by group or by record, single and mapping-form writes         *)
(***************************************************************************)
\* observer groups the model may make under SpecObservers
MaxGroupsObservers == 2

RegistrationsObservers == {<<foo, "g">>, <<foo_bar, "g">>}

RegistrationsOnce == {<<foo, "f">>, <<foo_bar, "f">>}

InitObservers == Constructed(Prim(Obj))

DoSetObservers == Set(Writes, {FALSE}, {FALSE})

DoSetMappingObservers == SetMapping(Mappings, {FALSE})

DoObserveObservers == Observe(RegistrationsObservers, {FALSE}, MaxGroupsObservers)

DoObserveOnce == ObserveOnce(RegistrationsOnce, MaxGroupsObservers)

DoUnobserve == Unobserve

DoUnobserveRecord == UnobserveRecord(RegistrationsObservers)

NextObservers ==
    \/ DoSetObservers
    \/ DoSetMappingObservers
    \/ DoObserveObservers
    \/ DoObserveOnce
    \/ DoUnobserve
    \/ DoUnobserveRecord

SpecObservers == InitObservers /\ [][NextObservers]_vars

\* the observer records of group in the registry of instance m
GroupRecords(m, group) ==
    {<<k, i>> \in UNION {{k} \X (1..Len(m._observers[k])) : k \in DOMAIN m._observers} :
        m._observers[k][i].group = group}

\* the observer records in the registry of instance m that call callback
CallbackRecords(m, callback) ==
    {<<k, i>> \in UNION {{k} \X (1..Len(m._observers[k])) : k \in DOMAIN m._observers} :
        m._observers[k][i].callback = callback}

\* C14: unobserve of a group or of a record never throws; after
\* unobserve( group ) none of the group's records is in the registry and no
\* bucket is empty; unobserve of what is no longer registered changes
\* nothing; and a function of the caller is invoked only while a record
\* calling it is registered.
C14_ObserversCanBeCancelled ==
    /\ last.call.op \in {"unobserve", "unobserveRecord"}
       => /\ Returned
          /\ \A k \in DOMAIN _observers : _observers[k] # <<>>
          /\ _data = last.pre._data
          /\ last.calls = <<>>
    /\ last.call.op = "unobserve"
       => /\ GroupRecords(Here, last.call.group) = {}
          /\ GroupRecords(last.pre, last.call.group) = {}
             => _observers = last.pre._observers
    /\ \A i \in 1..Len(last.calls) :
          last.calls[i].c.kind = "user"
          => CallbackRecords(last.pre, last.calls[i].c) # {}

(***************************************************************************)
(* SpecOnce: one-shot observers of foo and foo.bar, single and             *)
(* mapping-form writes                                                     *)
(***************************************************************************)
\* observer groups the model may make under SpecOnce
MaxGroupsOnce == 2

InitOnce == Constructed(Prim(Obj))

DoSetOnce == Set(Writes, BOOLEAN, {FALSE})

DoSetMappingOnce == SetMapping(Mappings, {FALSE})

DoObserveOnceOnce == ObserveOnce(RegistrationsOnce, MaxGroupsOnce)

NextOnce ==
    \/ DoSetOnce
    \/ DoSetMappingOnce
    \/ DoObserveOnceOnce

SpecOnce == InitOnce /\ [][NextOnce]_vars

\* the invocations of one-shot wrappers during the last call
OnceInvocations == {i \in 1..Len(last.calls) : last.calls[i].c.kind = "once"}

\* C15: the wrapper observeOnce registers is invoked at most once: a call
\* invokes it at most once, only if no earlier call did (its group, emptied
\* by its first invocation, still had its records), and afterwards the
\* group is empty and none of its records is in the registry.
C15_ObserveOnceFiresAtMostOnce ==
    \A i \in OnceInvocations :
        /\ \A j \in OnceInvocations : last.calls[j].c = last.calls[i].c => j = i
        /\ last.pre.groups[last.calls[i].c.g].members # <<>>
        /\ groups[last.calls[i].c.g].members = <<>>
        /\ GroupRecords(Here, last.calls[i].c.g) = {}

\* a one-shot observer of foo.bar was invoked by a mapping-form set that
\* wrote both foo.bar and foo
C15_Witness ==
    /\ MappingSet /\ Returned
    /\ Len(last.call.entries) = 2
    /\ \E i \in OnceInvocations :
          /\ last.calls[i].via = "queue"
          /\ Len(last.pre.groups[last.calls[i].c.g].members) = 2

\* callback was invoked with value during the last call, or is queued with it
Dispatched(callback, value) ==
    \/ \E i \in 1..Len(last.calls) :
          last.calls[i].c = callback /\ last.calls[i].v = value
    \/ \E i \in 1..Len(_queue) : _queue[i].c = callback /\ _queue[i].v = value

\* C20: a non-silent set( p, v ) that changes the value at p and returns
\* has considered every observer record that was in the bucket of p: the
\* record's group remembers the value now at the record's original
\* keypath, and where that value differs from the one the group remembered
\* before, the record's callback has been invoked with it or is queued
\* with it.
C20_ExactPassConsidersEveryRecord ==
    (/\ SingleSet /\ ~last.call.silent /\ Returned
     /\ ~isEqual(Before(last.call.keypath), Value))
    => \A i \in 1..Len(Bucket(last.pre, last.call.keypath)) :
          /\ groups[Bucket(last.pre, last.call.keypath)[i].group].__previousValue
               = After(Bucket(last.pre, last.call.keypath)[i].originalKeypath)
          /\ ~isEqual(After(Bucket(last.pre, last.call.keypath)[i].originalKeypath),
                      last.pre.groups[Bucket(last.pre, last.call.keypath)[i].group]
                          .__previousValue)
             => Dispatched(Bucket(last.pre, last.call.keypath)[i].callback,
                           After(Bucket(last.pre, last.call.keypath)[i].originalKeypath))

(***************************************************************************)
(* SpecKeypath: foo written as a string, as a falsy number and through     *)
(* foo[0], foo.0 and foo.bar; get through each spelling; observers         *)
(* registered through either spelling                                      *)
(***************************************************************************)
foo0 == <<"f", "o", "o", "[", "0", "]">>
foo_0 == <<"f", "o", "o", ".", "0">>
idA0 == <<"a", ".", "0">>
keyA0 == <<"a", "[", "0", "]">>

\* observer groups the model may make under SpecKeypath
MaxGroupsKeypath == 1

ValuesKeypath == {Str(bar), Str(baz), Num(0)}

WritesKeypath ==
    {<<foo, Prim(Str(bar))>>, <<foo, Prim(Num(0))>>, <<foo_bar, Prim(Str(baz))>>,
     <<foo0, Prim(Str(baz))>>, <<foo_0, Prim(Str(bar))>>}

KeypathsKeypath == {foo, foo_bar, foo0, foo_0}

RegistrationsKeypath == {<<foo0, "f">>, <<foo_0, "g">>}

InitKeypath == Constructed(Prim(Obj))

DoSetKeypath == Set(WritesKeypath, {FALSE}, {FALSE})

DoGetKeypath == Get(KeypathsKeypath)

DoObserveKeypath == Observe(RegistrationsKeypath, {FALSE}, MaxGroupsKeypath)

DoUnobserveKeypath == Unobserve

NextKeypath ==
    \/ DoSetKeypath
    \/ DoGetKeypath
    \/ DoObserveKeypath
    \/ DoUnobserveKeypath

SpecKeypath == InitKeypath /\ [][NextKeypath]_vars

\* C16: set( p, v ) of a primitive v returns, and get( p ) right after it
\* returns v.
C16_SetThenGetRoundTrip ==
    (SingleSet /\ IsPrimitive(Value))
    => /\ Returned
       /\ get(Here, last.call.keypath).v = Value

\* the value stored in tree data under the keys of keypath, undefined when
\* there is none
StoredAt(data, keypath) == Lookup(data, splitKeypath(keypath))

\* C17: get( keypath ) returns normally, with the value stored at the
\* keypath, or undefined when nothing is stored there (the path does not
\* exist, or runs into null or a primitive).
C17_GetNeverRaises ==
    last.call.op = "get"
    => /\ Returned
       /\ last.call.result = StoredAt(last.pre._data, last.call.keypath)

\* the other spelling of foo[0] / foo.0
OtherSpelling(keypath) ==
    CASE keypath = foo0 -> foo_0
      [] keypath = foo_0 -> foo0
      [] keypath = keyA0 -> idA0
      [] OTHER -> keyA0

\* C18: foo[0] and foo.0 normalise to foo.0, a[0] and a.0 to a.0, and
\* normalising twice changes nothing; get, set and observe do the same
\* through either spelling of foo.0; what set wrote through one spelling of
\* a keypath get returns through the other; a set
\* through either spelling that changes the value invokes the observers
\* registered through either; unobserve removes them.
C18_SpellingsInterchangeable ==
    /\ standardise(foo0) = foo_0
    /\ standardise(foo_0) = foo_0
    /\ \A k \in KeypathsKeypath : standardise(standardise(k)) = standardise(k)
    /\ get(Here, foo0) = get(Here, foo_0)
    /\ \A v \in ValuesKeypath :
          set(Here, foo0, Prim(v), FALSE, FALSE) = set(Here, foo_0, Prim(v), FALSE, FALSE)
    /\ \A cb \in {f, g} :
          observe(Here, foo0, cb, FALSE, "observe") = observe(Here, foo_0, cb, FALSE, "observe")
    /\ standardise(keyA0) = idA0
    /\ (SingleSet /\ Returned /\ last.call.keypath \in {foo0, foo_0, keyA0, idA0})
       => /\ get(Here, OtherSpelling(last.call.keypath)).v = Value
          /\ \A cb \in {f, g} :
                (/\ ExactObservers(last.pre, foo_0, cb) # {}
                 /\ InSync(last.pre, foo_0, cb)
                 /\ Before(foo_0) # Value)
                => \E i \in Invoked(cb) : last.calls[i].v = Value
    /\ (last.call.op = "unobserve" /\ Returned)
       => GroupRecords(Here, last.call.group) = {}

(***************************************************************************)
(* SpecAdd: add on the number x and on a, which is derived from x, with an *)
(* observer of a                                                           *)
(***************************************************************************)
\* add is tried while the number it would add to is at most this
MaxNumber == 3

\* compute calls and observer groups the model may make under SpecAdd
MaxComputesAdd == 2
MaxGroupsAdd == 3

Deltas == {Undefined, Num(2), Str(bar)}

ComputationsAdd ==
    {<<idA, Options("succ", <<keyX>>, "false", "undefined")>>,
     <<idA, Options("succ", <<keyX>>, "false", "false")>>}

WritesAdd == {<<keyX, Prim(Num(0))>>, <<keyX, Prim(Str(bar))>>, <<keyXZ, Prim(Num(1))>>}

InitAdd == Constructed(XOf(Num(0)))

DoAdd == Add({keyX, idA}, Deltas, MaxNumber)

DoSetAdd == Set(WritesAdd, {FALSE}, {FALSE})

DoComputeAdd == Compute(ComputationsAdd, MaxComputesAdd, MaxGroupsAdd)

DoObserveAdd == Observe({<<idA, "f">>}, {FALSE}, MaxGroupsAdd)

NextAdd ==
    \/ DoAdd
    \/ DoSetAdd
    \/ DoComputeAdd
    \/ DoObserveAdd

SpecAdd == InitAdd /\ [][NextAdd]_vars

\* add( keypath, d ) was the last call
AddCall == last.call.op = "add"

\* d of the last add, 1 when it was not given
Delta == IF Value = Undefined THEN Num(1) ELSE Value

\* the value at the keypath and d of the last add are both numeric
BothNumeric == isNumeric(Before(last.call.keypath)) /\ isNumeric(Delta)

\* the sum the last add is to store
Sum == Num(ToNumber(Before(last.call.keypath)) + ToNumber(Delta))

\* set( keypath, sum ) made in the state the last add was made in
OrdinarySet == set(last.pre, last.call.keypath, Prim(Sum), FALSE, FALSE)

\* the invocations of user callbacks in a log of calls
UserCalls(calls) == SelectSeq(calls, LAMBDA call : call.c.kind # "setter")

\* C19: add( keypath, d ), d defaulting to 1: when the value at the keypath
\* and d are both numeric, add does what set( keypath, their sum ) does: the
\* same tree, the same error if any and the same observers invoked with the
\* same values, the keypath holding the sum when it returns; otherwise add
\* returns normally, the tree is unchanged and no observer has been invoked.
C19_AddSumsNumericOnly ==
    AddCall
    => /\ BothNumeric
          => /\ _data = OrdinarySet._data
             /\ last.err = OrdinarySet.err
             /\ UserCalls(last.calls) = UserCalls(OrdinarySet.calls)
             /\ Returned => After(last.call.keypath) = Sum
       /\ ~BothNumeric
          => /\ Returned
             /\ _data = last.pre._data
             /\ UserCalls(last.calls) = <<>>

(***************************************************************************)
(* SpecChain: b is derived from a, which is derived from x; either may be  *)
(* cached or not, and both are read with get                               *)
(***************************************************************************)
\* compute calls and observer groups the model may make under SpecChain
MaxComputesChain == 2
MaxGroupsChain == 2

ComputationsChain ==
    {<<idA, Options("succ", <<keyX>>, "undefined", "undefined")>>,
     <<idA, Options("succ", <<keyX>>, "false", "undefined")>>,
     <<idB, Options("succ", <<idA>>, "undefined", "undefined")>>,
     <<idB, Options("succ", <<idA>>, "false", "undefined")>>}

InitChain == Constructed(XOf(Num(0)))

DoComputeChain == Compute(ComputationsChain, MaxComputesChain, MaxGroupsChain)

DoSetChain == Set(WritesBatch, {FALSE}, {FALSE})

DoGetChain == Get({keyX, idA, idB})

NextChain ==
    \/ DoComputeChain
    \/ DoSetChain
    \/ DoGetChain

SpecChain == InitChain /\ [][NextChain]_vars

\* the last call wrote to no computed id itself: whatever was written to one
\* was written by a setter
NoManualWrite ==
    \/ last.call.op \in {"get", "compute"}
    \/ SingleSet /\ last.call.keypath \notin DOMAIN last.pre._computed

\* C21: a write to a computed id by that value's own setter (the seed in
\* compute, a recomputation on a trigger's change, the recomputation inside
\* get) never raises the readonly error and never sets the override flag,
\* whatever the computed values are, and `computing` is false whenever no
\* setter is running.
C21_SetterWritesAreNotManual ==
    /\ computing = FALSE
    /\ NoManualWrite
       => /\ last.err # "readonly"
          /\ \A id \in DOMAIN _computed : ~_computed[id].override

(***************************************************************************)
(* SpecCycle: a is derived from x and b, and b from a; neither is its own  *)
(* trigger                                                                 *)
(***************************************************************************)
\* compute calls and observer groups the model may make under SpecCycle
MaxComputesCycle == 2
MaxGroupsCycle == 3

ComputationsCycle ==
    {<<idA, Options("sum", <<keyX, idB>>, "undefined", "undefined")>>,
     <<idA, Options("sum", <<keyX, idB>>, "false", "undefined")>>,
     <<idB, Options("succ", <<idA>>, "undefined", "undefined")>>,
     <<idB, Options("succ", <<idA>>, "false", "undefined")>>}

InitCycle == Constructed(XOf(Num(0)))

DoComputeCycle == Compute(ComputationsCycle, MaxComputesCycle, MaxGroupsCycle)

DoSetCycle == Set(WritesBatch, {FALSE}, {FALSE})

DoGetCycle == Get({keyX, idA, idB})

NextCycle ==
    \/ DoComputeCycle
    \/ DoSetCycle
    \/ DoGetCycle

SpecCycle == InitCycle /\ [][NextCycle]_vars

\* the last call ran until the model's limit on the callbacks of one call
\* or on their nesting: it did not come to rest
Unbounded == last.err \in {"Hang", "RangeError"}

\* C22: with computed values that compute accepted (none is its own
\* trigger), every set, get and compute call comes to rest: the chain of
\* setter invocations it causes ends after finitely many recomputations.
C22_RecomputationTerminates ==
    last.call.op \in {"set", "get", "compute"} => ~Unbounded

(***************************************************************************)
(* SpecAbort: mappings that write to the readonly a after writing to x     *)
(***************************************************************************)
\* observer groups the model may make under SpecAbort
MaxGroupsAbort == 3

MappingsAbort ==
    {<< <<keyX, Prim(Num(1))>>, <<idA, Prim(Num(3))>> >>,
     << <<keyX, Prim(Num(0))>> >>}

InitAbort == Constructed(XOf(Num(0)))

DoComputeAbort == Compute(ComputationsBatch, 1, MaxGroupsAbort)

DoSetAbort == Set(WritesBatch, {FALSE}, {FALSE})

DoSetMappingAbort == SetMapping(MappingsAbort, {FALSE})

DoObserveAbort == Observe(RegistrationsBatch, {FALSE}, MaxGroupsAbort)

NextAbort ==
    \/ DoComputeAbort
    \/ DoSetAbort
    \/ DoSetMappingAbort
    \/ DoObserveAbort

SpecAbort == InitAbort /\ [][NextAbort]_vars

\* C23: whenever no set call is in progress, after a set that returned and
\* equally after a set, of one keypath or of a mapping, that an error
\* ended, `queueing` is false and the queue of notifications is empty.
C23_QueueIsCleanBetweenCalls ==
    /\ queueing = FALSE
    /\ _queue = <<>>

\* C24: a compute( id, options ) that fails, on a self-trigger or on an
\* error while the value is seeded, leaves the instance as it was: the
\* computed values, each with its flags, the observers and the tree are
\* those of before the call, so a value registered under id before is still
\* registered and still observes its triggers.
C24_FailedComputeChangesNothing ==
    (ComputeCall /\ ~Returned)
    => /\ _computed = last.pre._computed
       /\ _observers = last.pre._observers
       /\ _data = last.pre._data

(***************************************************************************)
(* SpecReadonly: the readonly value a.0 is derived from x; a.0 is written  *)
(* to under its id, as a[0], and by writes to a                            *)
(***************************************************************************)
\* the tree [ value ]
ArrayOf(value) == (<<>> :> Arr) @@ (<< <<"0">> >> :> value)

\* compute calls and observer groups the model may make under SpecReadonly
MaxComputesReadonly == 2
MaxGroupsReadonly == 2

ComputationsReadonly ==
    {<<idA0, Options("succ", <<keyX>>, "undefined", "undefined")>>,
     <<idA0, Options("succ", <<keyX>>, "false", "undefined")>>}

WritesReadonly ==
    {<<keyX, Prim(Num(0))>>, <<keyX, Prim(Num(1))>>,
     <<idA0, Prim(Num(3))>>, <<keyA0, Prim(Num(3))>>, <<idA, ArrayOf(Num(3))>>}

InitReadonly == Constructed(XOf(Num(0)))

DoComputeReadonly == Compute(ComputationsReadonly, MaxComputesReadonly, MaxGroupsReadonly)

DoSetReadonly == Set(WritesReadonly, BOOLEAN, {FALSE})

DoGetReadonly == Get({idA0, keyA0})

DoObserveReadonly == Observe({<<idA0, "f">>}, {FALSE}, MaxGroupsReadonly)

NextReadonly ==
    \/ DoComputeReadonly
    \/ DoSetReadonly
    \/ DoGetReadonly
    \/ DoObserveReadonly

SpecReadonly == InitReadonly /\ [][NextReadonly]_vars

\* the setter of the computed value id ran during the last call
SetterRan(id) ==
    \E i \in 1..Len(last.calls) : last.calls[i].c = SetterCallback(_computed[id].setter)

\* C25: the value stored at the keypath of a readonly computed value changes
\* only through that value's own setter: no set call changes it without the
\* setter running, whether it names the id as it was registered, in another
\* spelling, or writes to an ancestor of the id.
C25_ReadonlyValueChangesOnlyThroughSetter ==
    \A id \in DOMAIN _computed :
        (/\ SingleSet
         /\ id \in DOMAIN last.pre._computed
         /\ last.pre._computed[id].setter = _computed[id].setter
         /\ _computed[id].readonly
         /\ After(id) # Before(id))
        => SetterRan(id)

====
